---------------------------- MODULE Spec2Model ----------------------------
(***************************************************************************)
(* A model of gertty's configuration loader, gertty/config.py:             *)
(* ConfigSchema (the voluptuous schema) and Config.__init__ (load,         *)
(* validate, select a server, resolve credentials, TLS options, URLs,      *)
(* palettes, keymaps, comment links, dashboards, review keys and the size  *)
(* column).                                                                *)
(*                                                                         *)
(* Python values are modelled as follows.  A dict is a function whose      *)
(* domain is the set of keys present, so `k in d` is k \in DOMAIN d and    *)
(* d.get(k, x) is Get(d, k, x).  A list is a sequence.  A str that the     *)
(* code inspects character by character (url, git-url) is a sequence of    *)
(* one-character strings; every other str is a TLA+ string.  None is the   *)
(* string None where a str is expected and the empty dict NoServer where   *)
(* a server record is expected.  An OrderedDict is a sequence of           *)
(* [key, value] records in insertion order.                                *)
(***************************************************************************)
EXTENDS Integers, Sequences, FiniteSets, TLC

VARIABLES
    fs,         \* the file at self.path: [exists, st_mode]
    document,   \* what yaml.safe_load returns for that file
    args,       \* the arguments of Config.__init__: [server, palette, keymap]
    pc,         \* position of Config.__init__
    self,       \* the attributes of the Config object assigned so far
    environ,    \* os.environ, restricted to the three TLS variables
    envWrites,  \* number of assignments made to each of them
    calls,      \* number of calls of getpass.getpass and os.stat
    stdout,     \* what was printed
    error       \* how the constructor ended when it did not return

vars == <<fs, document, args, pc, self, environ, envWrites, calls, stdout, error>>

(***************************************************************************)
(* Bounds of the model.                                                    *)
(***************************************************************************)
MaxServers == 2     \* longest `servers` list
MaxList == 2        \* longest palettes/keymaps/commentlinks list
MaxKeyed == 3       \* longest dashboards/reviewkeys list
MaxUrlLen == 3      \* longest `url` / `git-url` string

(***************************************************************************)
(* Python primitives.                                                      *)
(***************************************************************************)
None == "None"
NoServer == <<>>
EmptyDict == <<>>

Get(d, k, default) == IF k \in DOMAIN d THEN d[k] ELSE default

\* str.endswith('/')
EndsWithSlash(s) == Len(s) > 0 /\ s[Len(s)] = "/"

\* number of '/' characters that end s
RECURSIVE TrailingSlashes(_)
TrailingSlashes(s) ==
    IF EndsWithSlash(s) THEN 1 + TrailingSlashes(SubSeq(s, 1, Len(s) - 1)) ELSE 0

\* dict.update(other): a shallow update, other wins on every key it has
DictUpdate(d, other) ==
    [k \in DOMAIN d \cup DOMAIN other |-> IF k \in DOMAIN other THEN other[k] ELSE d[k]]

\* self.<attr> = value
SetAttr(obj, attr, value) == DictUpdate(obj, attr :> value)


(***************************************************************************)
(* ConfigSchema.  voluptuous semantics: a dict schema is closed (unknown   *)
(* keys are errors) and its Required keys must be present; a list schema   *)
(* [x] accepts every list, the empty one included, whose elements all      *)
(* validate against x.                                                     *)
(***************************************************************************)
\* the elements of a list
Elements(list) == {list[i] : i \in 1..Len(list)}

ServerRequired == {"name", "url", "username", "git-root"}
ServerKeys ==
    ServerRequired \cup {"password", "verify-ssl", "ssl-ca-path", "dburi", "git-url",
                         "log-file", "lock-file", "socket", "auth-type"}

ValidServer(s) == ServerRequired \subseteq DOMAIN s /\ DOMAIN s \subseteq ServerKeys

\* servers = [server]
ValidServers(servers) == \A s \in Elements(servers) : ValidServer(s)

SizeColumnTypes == {"graph", "split-graph", "number", "disabled", None}

\* size_column = {Required('type'): Any(...), Optional('thresholds'): thresholds}
ValidSizeColumn(sc) ==
    /\ "type" \in DOMAIN sc
    /\ DOMAIN sc \subseteq {"type", "thresholds"}
    /\ sc["type"] \in SizeColumnTypes

\* palette / keymap = {Required('name'): str, Match('(?!name)'): ...}
ValidNamed(p) == "name" \in DOMAIN p

\* dashboard / reviewkey: Required('key') among the required keys
ValidKeyed(d) == "key" \in DOMAIN d

\* commentlink = {Required('match'): str, Required('replacements'): [...], ...}
ValidCommentLink(c) ==
    {"match", "replacements"} \subseteq DOMAIN c
    /\ DOMAIN c \subseteq {"match", "replacements", "test-result"}

TopLevelKeys ==
    {"servers", "palettes", "palette", "keymaps", "keymap", "commentlinks",
     "dashboards", "reviewkeys", "change-list-query", "diff-view", "hide-comments",
     "thread-changes", "display-times-in-utc", "handle-mouse", "breadcrumbs",
     "close-change-on-review", "change-list-options", "expire-age", "size-column"}

\* schema(self.config) does not raise
getSchema(data) ==
    /\ "servers" \in DOMAIN data
    /\ DOMAIN data \subseteq TopLevelKeys
    /\ ValidServers(data["servers"])
    /\ \A x \in Elements(Get(data, "palettes", <<>>)) : ValidNamed(x)
    /\ \A x \in Elements(Get(data, "keymaps", <<>>)) : ValidNamed(x)
    /\ \A x \in Elements(Get(data, "commentlinks", <<>>)) : ValidCommentLink(x)
    /\ \A x \in Elements(Get(data, "dashboards", <<>>)) : ValidKeyed(x)
    /\ \A x \in Elements(Get(data, "reviewkeys", <<>>)) : ValidKeyed(x)
    /\ ("size-column" \in DOMAIN data => ValidSizeColumn(data["size-column"]))

(***************************************************************************)
(* Config.getServer: the first record, in list order, that the loop        *)
(* accepts; None when the loop ends.                                       *)
(***************************************************************************)
RECURSIVE getServer(_, _)
getServer(servers, name) ==
    IF servers = <<>> THEN NoServer
    ELSE IF name = None \/ name = Head(servers)["name"] THEN Head(servers)
    ELSE getServer(Tail(servers), name)

(***************************************************************************)
(* Lines 157-162 and 190-193: a '/' is appended when the string does not   *)
(* end with one.                                                           *)
(***************************************************************************)
AlwaysAppendSlash(s) == Append(s, "/")

EnsureTrailingSlash(s) == IF ~EndsWithSlash(s) THEN Append(s, "/") ELSE s

\* server.get('git-url', self.url + 'p/')
DefaultGitUrl(url) == url \o <<"p", "/">>

(***************************************************************************)
(* Lines 171-172: the permission bits of the file and the one accepted     *)
(* value.  st_mode & 0o0777 keeps the low nine bits.                       *)
(***************************************************************************)
PermissionMask == 512
SecureMode == 384

PermissionBits(st_mode) == st_mode % PermissionMask

OnlyGroupOtherChecked(mode) == mode % 64 = 0

ModeIsSecure(mode) == mode = SecureMode

(***************************************************************************)
(* Lines 179-188: the TLS options of the selected server.                  *)
(***************************************************************************)
VerifyDefaultsToFalse(server) == Get(server, "verify-ssl", FALSE)

VerifySsl(server) == Get(server, "verify-ssl", TRUE)

SslCaPath(server) == Get(server, "ssl-ca-path", None)

\* os.path.expanduser, on the paths of the model
expanduser(path) == IF path = "~/ca.pem" THEN "/home/user/ca.pem" ELSE path

TlsVars == {"GIT_SSL_NO_VERIFY", "REQUESTS_CA_BUNDLE", "GIT_SSL_CAINFO"}

(***************************************************************************)
(* gertty.palette.Palette and gertty.keymap.KeyMap: value objects built    *)
(* from a dict of fields and updated by another, field by field.  LIGHT    *)
(* and VI are the second built-in of each collection.                      *)
(***************************************************************************)
LIGHT_PALETTE == ("header" :> <<"black">>) @@ ("footer" :> <<"white">>)
VI_KEYMAP == ("header" :> <<"k">>) @@ ("footer" :> <<"j">>)

PaletteUpdate(palette, config) == DictUpdate(palette, config)
Palette(config) == PaletteUpdate(EmptyDict, config)

KeyMapUpdate(keymap, config) == DictUpdate(keymap, config)
KeyMap(config) == KeyMapUpdate(EmptyDict, config)

\* d[key] = value on a dict
SetItem(d, key, value) == DictUpdate(d, key :> value)

(***************************************************************************)
(* Lines 203-210 and 213-219: the built-ins, then the user's entries in    *)
(* document order, each inserted under a new name or merged into the       *)
(* entry that has its name.                                                *)
(***************************************************************************)
BuiltinPalettes == ("default" :> Palette(EmptyDict)) @@ ("light" :> Palette(LIGHT_PALETTE))
BuiltinKeymaps == ("default" :> KeyMap(EmptyDict)) @@ ("vi" :> KeyMap(VI_KEYMAP))

RECURSIVE ReplacePalettes(_, _)
ReplacePalettes(palettes, entries) ==
    IF entries = <<>> THEN palettes
    ELSE LET p == Head(entries)
         IN  ReplacePalettes(SetItem(palettes, p["name"], Palette(p)), Tail(entries))

RECURSIVE LoadPalettes(_, _)
LoadPalettes(palettes, entries) ==
    IF entries = <<>> THEN palettes
    ELSE LET p == Head(entries)
         IN  IF p["name"] \notin DOMAIN palettes
             THEN LoadPalettes(SetItem(palettes, p["name"], Palette(p)), Tail(entries))
             ELSE LoadPalettes(
                      SetItem(palettes, p["name"], PaletteUpdate(palettes[p["name"]], p)),
                      Tail(entries))

RECURSIVE LoadKeymaps(_, _)
LoadKeymaps(keymaps, entries) ==
    IF entries = <<>> THEN keymaps
    ELSE LET p == Head(entries)
         IN  IF p["name"] \notin DOMAIN keymaps
             THEN LoadKeymaps(SetItem(keymaps, p["name"], KeyMap(p)), Tail(entries))
             ELSE LoadKeymaps(
                      SetItem(keymaps, p["name"], KeyMapUpdate(keymaps[p["name"]], p)),
                      Tail(entries))

\* self.config.get('palette', palette) and self.config.get('keymap', keymap)
PaletteName(config, palette) == Get(config, "palette", palette)
KeymapName(config, keymap) == Get(config, "keymap", keymap)

(***************************************************************************)
(* Lines 222-230: gertty.commentlink.CommentLink objects for the user's    *)
(* rules, then the rule that turns bare URLs into links.                   *)
(***************************************************************************)
CommentLink(config) ==
    [match |-> config["match"], replacements |-> config["replacements"]]

UrlLinkConfig ==
    ("match" :> "(?P<url>https?://\\S*)")
    @@ ("replacements" :> <<[link |-> [text |-> "{url}", url |-> "{url}"]]>>)

PrependUrlLink(configs) ==
    <<CommentLink(UrlLinkConfig)>> \o [i \in 1..Len(configs) |-> CommentLink(configs[i])]

LoadCommentLinks(configs) ==
    Append([i \in 1..Len(configs) |-> CommentLink(configs[i])], CommentLink(UrlLinkConfig))

(***************************************************************************)
(* Lines 236-243: OrderedDict.  od[key] = value replaces the value of a    *)
(* key that is present, where it stands, and appends a key that is not.    *)
(***************************************************************************)
OrderedKeys(od) == {od[i].key : i \in 1..Len(od)}

OrderedMoveToEnd(od, key, value) ==
    SelectSeq(od, LAMBDA e : e.key # key) \o <<[key |-> key, value |-> value]>>

OrderedSet(od, key, value) ==
    IF key \in OrderedKeys(od)
    THEN [i \in 1..Len(od) |-> IF od[i].key = key THEN [key |-> key, value |-> value]
                                                 ELSE od[i]]
    ELSE Append(od, [key |-> key, value |-> value])

RECURSIVE LoadKeyed(_, _)
LoadKeyed(od, entries) ==
    IF entries = <<>> THEN od
    ELSE LoadKeyed(OrderedSet(od, Head(entries)["key"], Head(entries)), Tail(entries))

(***************************************************************************)
(* Lines 262-269: the size column.                                         *)
(***************************************************************************)
GraphThresholds == <<1, 10, 100, 1000>>
OtherThresholds == <<1, 10, 100, 200, 400, 600, 800, 1000>>

AlwaysGraphThresholds(type) == GraphThresholds

DefaultThresholds(type) == IF type = "graph" THEN GraphThresholds ELSE OtherThresholds

ResolveSizeColumn(config) ==
    LET sc == Get(config, "size-column", EmptyDict)
        type == Get(sc, "type", "graph")
        withType == SetItem(sc, "type", type)
    IN  SetItem(withType, "thresholds", Get(withType, "thresholds", DefaultThresholds(type)))

(***************************************************************************)
(* Config.__init__, one action per step of the constructor.  A step that   *)
(* calls sys.exit moves to "exited", one that raises moves to "raised".    *)
(* The assignments of lines 161-162 (hostname), 178 (auth_type), 189 and   *)
(* 194-201 (expanded paths), 232-234 and 245-260 (scalar options and the   *)
(* hide-comments patterns) read only the document and write attributes     *)
(* that no other step reads; they are left out.                            *)
(***************************************************************************)
Exit(message) ==
    /\ pc' = "exited"
    /\ error' = "SystemExit(1)"
    /\ stdout' = Append(stdout, message)

Raise(exception) ==
    /\ pc' = "raised"
    /\ error' = exception
    /\ UNCHANGED stdout

Goto(next) ==
    /\ pc' = next
    /\ UNCHANGED <<error, stdout>>

\* lines 146-150
CheckPath ==
    /\ pc = "start"
    /\ IF ~fs.exists THEN Exit("printSample") ELSE Goto("load")
    /\ UNCHANGED <<fs, document, args, self, environ, envWrites, calls>>

\* lines 152-154
LoadAndValidate ==
    /\ pc = "load"
    /\ self' = SetAttr(self, "config", document)
    /\ IF getSchema(document) THEN Goto("getServer") ELSE Raise("MultipleInvalid")
    /\ UNCHANGED <<fs, document, args, environ, envWrites, calls>>

\* lines 155-156
SelectServer ==
    /\ pc = "getServer"
    /\ self' = SetAttr(self, "server", getServer(self["config"]["servers"], args.server))
    /\ Goto("url")
    /\ UNCHANGED <<fs, document, args, environ, envWrites, calls>>

\* lines 157-160: server['url'] raises TypeError when server is None
NormalizeUrl ==
    /\ pc = "url"
    /\ IF self["server"] = NoServer
       THEN Raise("TypeError") /\ UNCHANGED self
       ELSE /\ self' = SetAttr(self, "url", EnsureTrailingSlash(self["server"]["url"]))
            /\ Goto("password")
    /\ UNCHANGED <<fs, document, args, environ, envWrites, calls>>

\* lines 163-177
Credential ==
    /\ pc = "password"
    /\ LET password == Get(self["server"], "password", None)
           withUser == SetAttr(self, "username", self["server"]["username"])
       IN  IF password = None
           THEN \E typed \in {"", "typed"} :
                    /\ self' = SetAttr(withUser, "password", typed)
                    /\ calls' = [calls EXCEPT !.getpass = @ + 1]
                    /\ Goto("tls")
           ELSE /\ self' = SetAttr(withUser, "password", password)
                /\ calls' = [calls EXCEPT !.stat = @ + 1]
                /\ IF ~ModeIsSecure(PermissionBits(fs.st_mode))
                   THEN Exit("permissions")
                   ELSE Goto("tls")
    /\ UNCHANGED <<fs, document, args, environ, envWrites>>

\* lines 178-188
Tls ==
    /\ pc = "tls"
    /\ LET verify == VerifySsl(self["server"])
           ca == SslCaPath(self["server"])
           noVerify == IF ~verify THEN {"GIT_SSL_NO_VERIFY"} ELSE {}
           caVars == IF ca # None THEN {"REQUESTS_CA_BUNDLE", "GIT_SSL_CAINFO"} ELSE {}
           caPath == IF ca # None THEN expanduser(ca) ELSE ca
       IN  /\ self' = SetAttr(SetAttr(self, "verify_ssl", verify), "ssl_ca_path", caPath)
           /\ environ' = [v \in TlsVars |-> IF v \in noVerify THEN "true"
                                            ELSE IF v \in caVars THEN caPath
                                            ELSE environ[v]]
           /\ envWrites' = [v \in TlsVars |-> IF v \in noVerify \cup caVars
                                              THEN envWrites[v] + 1 ELSE envWrites[v]]
    /\ Goto("git_url")
    /\ UNCHANGED <<fs, document, args, calls>>

\* lines 190-193
GitUrl ==
    /\ pc = "git_url"
    /\ LET git_url == Get(self["server"], "git-url", DefaultGitUrl(self["url"]))
       IN  self' = SetAttr(self, "git_url", EnsureTrailingSlash(git_url))
    /\ Goto("palettes")
    /\ UNCHANGED <<fs, document, args, environ, envWrites, calls>>

\* lines 203-211: self.palettes[name] raises KeyError for an unknown name
Palettes ==
    /\ pc = "palettes"
    /\ LET palettes == LoadPalettes(BuiltinPalettes, Get(self["config"], "palettes", <<>>))
           name == PaletteName(self["config"], args.palette)
       IN  IF name \in DOMAIN palettes
           THEN /\ self' = SetAttr(SetAttr(self, "palettes", palettes),
                                   "palette", palettes[name])
                /\ Goto("keymaps")
           ELSE /\ self' = SetAttr(self, "palettes", palettes)
                /\ Raise("KeyError")
    /\ UNCHANGED <<fs, document, args, environ, envWrites, calls>>

\* lines 213-220
Keymaps ==
    /\ pc = "keymaps"
    /\ LET keymaps == LoadKeymaps(BuiltinKeymaps, Get(self["config"], "keymaps", <<>>))
           name == KeymapName(self["config"], args.keymap)
       IN  IF name \in DOMAIN keymaps
           THEN /\ self' = SetAttr(SetAttr(self, "keymaps", keymaps), "keymap", keymaps[name])
                /\ Goto("commentlinks")
           ELSE /\ self' = SetAttr(self, "keymaps", keymaps)
                /\ Raise("KeyError")
    /\ UNCHANGED <<fs, document, args, environ, envWrites, calls>>

\* lines 222-230
CommentLinks ==
    /\ pc = "commentlinks"
    /\ self' = SetAttr(self, "commentlinks",
                       LoadCommentLinks(Get(self["config"], "commentlinks", <<>>)))
    /\ Goto("dashboards")
    /\ UNCHANGED <<fs, document, args, environ, envWrites, calls>>

\* lines 236-239
Dashboards ==
    /\ pc = "dashboards"
    /\ self' = SetAttr(self, "dashboards",
                       LoadKeyed(<<>>, Get(self["config"], "dashboards", <<>>)))
    /\ Goto("reviewkeys")
    /\ UNCHANGED <<fs, document, args, environ, envWrites, calls>>

\* lines 241-243
Reviewkeys ==
    /\ pc = "reviewkeys"
    /\ self' = SetAttr(self, "reviewkeys",
                       LoadKeyed(<<>>, Get(self["config"], "reviewkeys", <<>>)))
    /\ Goto("size_column")
    /\ UNCHANGED <<fs, document, args, environ, envWrites, calls>>

\* lines 262-269: self.size_column is the document's own dict when it has one,
\* so the assignments show in self.config too
SizeColumn ==
    /\ pc = "size_column"
    /\ LET size_column == ResolveSizeColumn(self["config"])
           config == IF "size-column" \in DOMAIN self["config"]
                     THEN SetItem(self["config"], "size-column", size_column)
                     ELSE self["config"]
       IN  self' = SetAttr(SetAttr(self, "config", config), "size_column", size_column)
    /\ Goto("done")
    /\ UNCHANGED <<fs, document, args, environ, envWrites, calls>>

Next ==
    \/ CheckPath
    \/ LoadAndValidate
    \/ SelectServer
    \/ NormalizeUrl
    \/ Credential
    \/ Tls
    \/ GitUrl
    \/ Palettes
    \/ Keymaps
    \/ CommentLinks
    \/ Dashboards
    \/ Reviewkeys
    \/ SizeColumn

(***************************************************************************)
(* The inputs of a run: the file, the document in it, the arguments and    *)
(* the inherited environment.  Each family below varies one section of     *)
(* the document and keeps the others at a fixed valid value.               *)
(***************************************************************************)
Chars == {"h", "/"}
Strs(n) == UNION {[1..k -> Chars] : k \in 0..n}
SeqsUpTo(S, n) == UNION {[1..k -> S] : k \in 0..n}

\* an optional key of a dict: absent, or present with a value of S
Opt(k, S) == {EmptyDict} \cup {k :> v : v \in S}

Server(name, url) ==
    ("name" :> name) @@ ("url" :> url) @@ ("username" :> "user") @@ ("git-root" :> "~/git")

\* st_mode of a regular file with mode 0600, 0644, 0400, 0700, 0666, 0200
RegularFile == 32768
FileModes ==
    {RegularFile + m : m \in {SecureMode, 420, 256, 448, 438, 128}}

SecureFile == [exists |-> TRUE, st_mode |-> RegularFile + SecureMode]
OneServer == <<Server("a", <<"h">>)>>
DefaultArgs == [server |-> None, palette |-> "default", keymap |-> "default"]
UnsetEnviron == [v \in TlsVars |-> None]
InheritedEnviron == [v \in TlsVars |-> "inherited"]

Start(docs, argsSet, files, environs) ==
    /\ document \in docs
    /\ args \in argsSet
    /\ fs \in files
    /\ environ \in environs
    /\ pc = "start"
    /\ self = EmptyDict
    /\ envWrites = [v \in TlsVars |-> 0]
    /\ calls = [getpass |-> 0, stat |-> 0]
    /\ stdout = <<>>
    /\ error = None

\* the `servers` key: absent, or a list of records some of which may lack `username`
ServerChoices ==
    {Server(n, u) : n \in {"a", "b"}, u \in {<<"h">>, <<"g", "/">>}}
    \cup {("name" :> "a") @@ ("url" :> <<"h">>) @@ ("git-root" :> "~/git")}

InitServers ==
    Start({EmptyDict} \cup {"servers" :> ss : ss \in SeqsUpTo(ServerChoices, MaxServers)},
          {[DefaultArgs EXCEPT !.server = n] : n \in {None, "a", "b", "c"}},
          {SecureFile, [SecureFile EXCEPT !.exists = FALSE]},
          {UnsetEnviron})

\* one server: its password, its TLS options, the file's mode
InitCredentials ==
    Start({"servers" :> <<Server("a", <<"h">>) @@ pw @@ vs @@ ca>> :
               pw \in Opt("password", {"", "secret"}),
               vs \in Opt("verify-ssl", BOOLEAN),
               ca \in Opt("ssl-ca-path", {"~/ca.pem", ""})}
          \cup {EmptyDict},
          {DefaultArgs},
          [exists : BOOLEAN, st_mode : FileModes],
          {UnsetEnviron, InheritedEnviron})

\* one server: its url and git-url
InitUrls ==
    Start({"servers" :> <<Server("a", u) @@ g>> :
               u \in Strs(MaxUrlLen), g \in Opt("git-url", Strs(MaxUrlLen))},
          {DefaultArgs}, {SecureFile}, {UnsetEnviron})

\* palettes and keymaps: user entries, the document's choice, the argument
Attrs == {"header", "footer"}
NamedChoices(names, values) ==
    {("name" :> n) @@ h @@ f :
         n \in names, h \in Opt("header", values), f \in Opt("footer", {<<"green">>})}

InitPalettes ==
    Start({("servers" :> OneServer) @@ ("palettes" :> ps) :
               ps \in SeqsUpTo(NamedChoices({"default", "light", "mine"},
                                            {<<"red">>, <<"blue">>}), MaxList)},
          {DefaultArgs}, {SecureFile}, {UnsetEnviron})

InitKeymaps ==
    Start({("servers" :> OneServer) @@ ("keymaps" :> ks) :
               ks \in SeqsUpTo(NamedChoices({"default", "vi", "mine"},
                                            {<<"h">>, <<"l">>}), MaxList)},
          {DefaultArgs}, {SecureFile}, {UnsetEnviron})

InitSelection ==
    Start({("servers" :> OneServer) @@ ps @@ ks @@ p @@ k :
               ps \in Opt("palettes", {<<("name" :> "mine") @@ ("header" :> <<"red">>)>>}),
               ks \in Opt("keymaps", {<<("name" :> "mine") @@ ("header" :> <<"h">>)>>}),
               p \in Opt("palette", {"default", "light", "mine"}),
               k \in Opt("keymap", {"default", "vi", "mine"})},
          {[DefaultArgs EXCEPT !.palette = p, !.keymap = k] :
               p \in {"default", "light", "mine"}, k \in {"default", "vi", "mine"}},
          {SecureFile}, {UnsetEnviron})

\* commentlinks
LinkChoices ==
    {("match" :> m) @@ ("replacements" :> <<[text |-> "bug"]>>) :
         m \in {"bug", "change", UrlLinkConfig["match"]}}

InitCommentLinks ==
    Start({("servers" :> OneServer) @@ c : c \in Opt("commentlinks", SeqsUpTo(LinkChoices, MaxList))},
          {DefaultArgs}, {SecureFile}, {UnsetEnviron})

\* dashboards and reviewkeys
KeyedChoices(field, values) ==
    {("key" :> k) @@ (field :> v) : k \in {"f1", "f2"}, v \in values}

InitDashboards ==
    Start({("servers" :> OneServer) @@ d :
               d \in Opt("dashboards",
                         SeqsUpTo(KeyedChoices("query", {"mine", "starred"}), MaxKeyed))},
          {DefaultArgs}, {SecureFile}, {UnsetEnviron})

InitReviewkeys ==
    Start({("servers" :> OneServer) @@ r :
               r \in Opt("reviewkeys",
                         SeqsUpTo(KeyedChoices("message", {"ok", "no"}), MaxKeyed))},
          {DefaultArgs}, {SecureFile}, {UnsetEnviron})

\* size-column
ThresholdChoices == {<<1, 2, 3, 4, 5, 6, 7, 8>>, <<5, 50, 500, 5000>>, <<>>}

InitSizeColumn ==
    Start({("servers" :> OneServer) @@ sc :
               sc \in Opt("size-column",
                          {("type" :> t) @@ th :
                               t \in SizeColumnTypes \cup {"bars"},
                               th \in Opt("thresholds", ThresholdChoices)})},
          {DefaultArgs}, {SecureFile}, {UnsetEnviron})

Init ==
    \/ InitServers
    \/ InitCredentials
    \/ InitUrls
    \/ InitPalettes
    \/ InitKeymaps
    \/ InitSelection
    \/ InitCommentLinks
    \/ InitDashboards
    \/ InitReviewkeys
    \/ InitSizeColumn

Spec == Init /\ [][Next]_vars

(***************************************************************************)
(* Properties.                                                             *)
(***************************************************************************)
Min(S) == CHOOSE x \in S : \A y \in S : x <= y
Max(S) == CHOOSE x \in S : \A y \in S : y <= x
Has(attr) == attr \in DOMAIN self
Entries(section) == Get(document, section, <<>>)

\* C1: when a palette (keymap) name other than the default is passed at
\* construction and the document declares its own `palette` (`keymap`), the
\* active palette (keymap) is the entry named by the argument; the document's
\* field is used only when the argument is left at `default`.
C1_ArgumentOverridesDocument ==
    pc = "done" =>
        /\ (args.palette # "default" /\ args.palette \in DOMAIN self["palettes"])
               => self["palette"] = self["palettes"][args.palette]
        /\ (args.palette = "default" /\ "palette" \in DOMAIN document)
               => self["palette"] = self["palettes"][document["palette"]]
        /\ (args.palette = "default" /\ "palette" \notin DOMAIN document)
               => self["palette"] = self["palettes"]["default"]
        /\ (args.keymap # "default" /\ args.keymap \in DOMAIN self["keymaps"])
               => self["keymap"] = self["keymaps"][args.keymap]
        /\ (args.keymap = "default" /\ "keymap" \in DOMAIN document)
               => self["keymap"] = self["keymaps"][document["keymap"]]
        /\ (args.keymap = "default" /\ "keymap" \notin DOMAIN document)
               => self["keymap"] = self["keymaps"]["default"]

\* C2 as stated: the resolved url and git_url end with exactly one '/' for
\* every input, inputs with several trailing slashes included.
C2_ExactlyOneTrailingSlash ==
    Has("git_url") =>
        /\ TrailingSlashes(self["url"]) = 1
        /\ TrailingSlashes(self["git_url"]) = 1

\* C2 as amended: the resolved url and git_url end with at least one '/';
\* an input without a trailing slash gets one appended, an input that ends
\* with one or several slashes is kept as it is, and an absent git-url
\* resolves to <url>p/, which ends with exactly one.
C2_TrailingSlashEnsured ==
    Has("git_url") =>
        LET url == self["server"]["url"]
            slashes(s) == IF TrailingSlashes(s) = 0 THEN 1 ELSE TrailingSlashes(s)
            kept(in, out) == out = (IF TrailingSlashes(in) = 0 THEN in \o <<"/">> ELSE in)
        IN  /\ kept(url, self["url"])
            /\ TrailingSlashes(self["url"]) = slashes(url)
            /\ IF "git-url" \in DOMAIN self["server"]
               THEN /\ kept(self["server"]["git-url"], self["git_url"])
                    /\ TrailingSlashes(self["git_url"]) = slashes(self["server"]["git-url"])
               ELSE /\ self["git_url"] = self["url"] \o <<"p", "/">>
                    /\ TrailingSlashes(self["git_url"]) = 1

C2_Witness ==
    /\ pc = "done"
    /\ TrailingSlashes(self["server"]["url"]) = 1
    /\ "git-url" \in DOMAIN self["server"]
    /\ TrailingSlashes(self["server"]["git-url"]) = 0
    /\ Len(self["server"]["git-url"]) > 0

\* C3: once the credential step has run, a server with `password` had the
\* file's mode checked once and was never prompted, and a mode other than
\* 0600 ended the run with a failure status, nothing later assigned and the
\* environment untouched; a server without `password` was prompted exactly
\* once, had no mode check, and was not ended by the step whatever the mode.
\* Before the step neither the prompt nor the mode check has happened.
C3_CredentialGate ==
    /\ ~Has("password") => calls = [getpass |-> 0, stat |-> 0]
    /\ Has("password") =>
           LET mode == fs.st_mode % 512
           IN  IF "password" \in DOMAIN self["server"]
               THEN /\ calls = [getpass |-> 0, stat |-> 1]
                    /\ self["password"] = self["server"]["password"]
                    /\ mode # 384 =>
                           /\ pc = "exited" /\ error = "SystemExit(1)"
                           /\ stdout = <<"permissions">>
                           /\ DOMAIN self = {"config", "server", "url", "username", "password"}
                           /\ \A v \in TlsVars : envWrites[v] = 0
                    /\ mode = 384 => pc \notin {"password", "exited"}
               ELSE /\ calls = [getpass |-> 1, stat |-> 0]
                    /\ pc \notin {"password", "exited"}

C3_Witness ==
    /\ pc = "exited"
    /\ Has("password")
    /\ self["password"] = "secret"
    /\ fs.st_mode % 512 = 256

\* C4: the record used is the first one in document order whose name is the
\* requested one (the first record when none is requested); when a requested
\* name matches no record the run ends as a SelectionFailure, without an
\* absent server being stored or used.
C4_SelectionFailsWithoutMatch ==
    (pc \notin {"start", "load", "getServer"} /\ error \notin {"SystemExit(1)", "MultipleInvalid"}
     /\ Len(document["servers"]) > 0) =>
        LET servers == document["servers"]
            matches == {i \in 1..Len(servers) :
                            args.server = None \/ servers[i]["name"] = args.server}
        IN  IF matches # {}
            THEN self["server"] = servers[Min(matches)]
            ELSE /\ pc = "raised"
                 /\ error = "SelectionFailure"
                 /\ ~Has("server")

\* C5: a document without `servers`, or with an empty `servers` list, is
\* rejected by the validator: the run ends there and no later step runs.
C5_EmptyServersRejected ==
    (fs.exists /\ pc \notin {"start", "load"}
     /\ ("servers" \notin DOMAIN document \/ document["servers"] = <<>>)) =>
        /\ pc = "raised"
        /\ error = "MultipleInvalid"
        /\ DOMAIN self = {"config"}

\* C6: a resolved palette (keymap) collection holds the built-in names and the
\* user's names; every field of an entry has the value of the last user entry
\* of that name that sets it, else the built-in's value, else is absent.
NamedMerged(coll, builtins, entries) ==
    /\ DOMAIN builtins \subseteq DOMAIN coll
    /\ DOMAIN coll = DOMAIN builtins \cup {entries[i]["name"] : i \in 1..Len(entries)}
    /\ \A n \in DOMAIN coll : \A f \in Attrs :
           LET setBy == {i \in 1..Len(entries) :
                             entries[i]["name"] = n /\ f \in DOMAIN entries[i]}
           IN  IF setBy # {}
               THEN f \in DOMAIN coll[n] /\ coll[n][f] = entries[Max(setBy)][f]
               ELSE IF n \in DOMAIN builtins /\ f \in DOMAIN builtins[n]
               THEN f \in DOMAIN coll[n] /\ coll[n][f] = builtins[n][f]
               ELSE f \notin DOMAIN coll[n]

C6_NamedCollectionsMerged ==
    /\ Has("palettes") =>
           /\ {"default", "light"} \subseteq DOMAIN self["palettes"]
           /\ NamedMerged(self["palettes"],
                          ("default" :> EmptyDict) @@ ("light" :> LIGHT_PALETTE),
                          Entries("palettes"))
    /\ Has("keymaps") =>
           /\ {"default", "vi"} \subseteq DOMAIN self["keymaps"]
           /\ NamedMerged(self["keymaps"],
                          ("default" :> EmptyDict) @@ ("vi" :> VI_KEYMAP),
                          Entries("keymaps"))

C6_Witness ==
    /\ pc = "done"
    /\ Len(Entries("palettes")) = 2
    /\ Entries("palettes")[1]["name"] = "light"
    /\ Entries("palettes")[2]["name"] = "light"
    /\ DOMAIN Entries("palettes")[1] = {"name", "header"}
    /\ DOMAIN Entries("palettes")[2] = {"name", "header"}
    /\ Entries("palettes")[1]["header"] # Entries("palettes")[2]["header"]
    /\ self["palettes"]["light"]["footer"] = <<"white">>

\* C7: a resolved dashboards (reviewkeys) mapping has one entry per distinct
\* key, each equal to the last list element with that key, in the order in
\* which the keys first appear in the list.
KeyedResolved(od, entries) ==
    LET first(k) == Min({j \in 1..Len(entries) : entries[j]["key"] = k})
        last(k) == Max({j \in 1..Len(entries) : entries[j]["key"] = k})
    IN  /\ {od[i].key : i \in 1..Len(od)} = {entries[j]["key"] : j \in 1..Len(entries)}
        /\ \A i, j \in 1..Len(od) : i # j => od[i].key # od[j].key
        /\ \A i \in 1..Len(od) : od[i].value = entries[last(od[i].key)]
        /\ \A i, j \in 1..Len(od) : i < j => first(od[i].key) < first(od[j].key)

C7_KeyedListsResolved ==
    /\ Has("dashboards") => KeyedResolved(self["dashboards"], Entries("dashboards"))
    /\ Has("reviewkeys") => KeyedResolved(self["reviewkeys"], Entries("reviewkeys"))

C7_Witness ==
    /\ pc = "done"
    /\ Len(Entries("dashboards")) = 3
    /\ Entries("dashboards")[1]["key"] = "f1"
    /\ Entries("dashboards")[2]["key"] = "f2"
    /\ Entries("dashboards")[3]["key"] = "f1"
    /\ Entries("dashboards")[1] # Entries("dashboards")[3]
    /\ Len(self["dashboards"]) = 2

\* C8: with n user commentlinks the resolved list has n + 1 rules: the user's
\* rules in document order, then the URL-autolink rule.
C8_UrlLinkLast ==
    Has("commentlinks") =>
        LET user == Entries("commentlinks")
            rules == self["commentlinks"]
        IN  /\ Len(rules) = Len(user) + 1
            /\ \A i \in 1..Len(user) :
                   /\ rules[i].match = user[i]["match"]
                   /\ rules[i].replacements = user[i]["replacements"]
            /\ rules[Len(rules)].match = "(?P<url>https?://\\S*)"
            /\ rules[Len(rules)].replacements
                   = <<[link |-> [text |-> "{url}", url |-> "{url}"]]>>

C8_Witness ==
    /\ pc = "done"
    /\ Len(Entries("commentlinks")) = 2
    /\ Entries("commentlinks")[1]["match"] = "bug"
    /\ Len(self["commentlinks"]) = 3

\* C9: the resolved size column has type `graph` when the document has no
\* size-column, the document's thresholds unchanged when it gives some, and
\* otherwise [1,10,100,1000] for type `graph` and the 8-value table for every
\* other type.
C9_SizeColumnResolved ==
    Has("size_column") =>
        LET given == Get(document, "size-column", EmptyDict)
            type == IF "size-column" \in DOMAIN document THEN given["type"] ELSE "graph"
            resolved == self["size_column"]
        IN  /\ resolved["type"] = type
            /\ resolved["thresholds"] =
                   IF "thresholds" \in DOMAIN given THEN given["thresholds"]
                   ELSE IF type = "graph" THEN <<1, 10, 100, 1000>>
                   ELSE <<1, 10, 100, 200, 400, 600, 800, 1000>>

C9_Witness ==
    /\ pc = "done"
    /\ "size-column" \in DOMAIN document
    /\ document["size-column"]["type"] = None
    /\ "thresholds" \notin DOMAIN document["size-column"]

\* C10: each TLS variable is written at most once, and only after the
\* document was found and validated, a server selected and the credential
\* step passed; a run that ends earlier leaves the environment as inherited.
\* After the TLS step GIT_SSL_NO_VERIFY was written iff verify-ssl is false,
\* and the two CA variables iff ssl-ca-path is set.
C10_EnvironmentWrites ==
    LET written == {v \in TlsVars : envWrites[v] > 0}
    IN  /\ \A v \in TlsVars : envWrites[v] <= 1
        /\ \A v \in TlsVars \ written : environ[v] \in {None, "inherited"}
        /\ written # {} =>
               /\ fs.exists
               /\ "servers" \in DOMAIN document
               /\ Has("server") /\ self["server"] \in {document["servers"][i] :
                                                          i \in 1..Len(document["servers"])}
               /\ \/ calls.getpass = 1
                  \/ calls.stat = 1 /\ fs.st_mode % 512 = 384
        /\ (pc \in {"exited", "raised"} /\ error \in {"SystemExit(1)", "MultipleInvalid"})
               => written = {} /\ environ \in {UnsetEnviron, InheritedEnviron}
        /\ Has("verify_ssl") =>
               LET server == self["server"]
                   noVerify == "verify-ssl" \in DOMAIN server /\ server["verify-ssl"] = FALSE
               IN  /\ "GIT_SSL_NO_VERIFY" \in written <=> noVerify
                   /\ noVerify => environ["GIT_SSL_NO_VERIFY"] = "true"
                   /\ "REQUESTS_CA_BUNDLE" \in written <=> "ssl-ca-path" \in DOMAIN server
                   /\ "GIT_SSL_CAINFO" \in written <=> "ssl-ca-path" \in DOMAIN server

C10_Witness ==
    /\ pc = "done"
    /\ "verify-ssl" \in DOMAIN self["server"]
    /\ ~self["server"]["verify-ssl"]
    /\ "ssl-ca-path" \in DOMAIN self["server"]
    /\ "password" \in DOMAIN self["server"]
    /\ envWrites = [v \in TlsVars |-> 1]

=============================================================================
